---- MODULE Spec2Model ----
(***************************************************************************)
(* capynet, src/font.rs: the sfnt (TrueType) font parser.                  *)
(*                                                                         *)
(* ByteParser is a bounds-checked big-endian cursor over a byte buffer;    *)
(* parse_from_file runs the decode steps font directory, cmap, head, hhea, *)
(* maxp, glyf over it and returns Result<Font, CapyError>.                 *)
(*                                                                         *)
(* Two specifications share the variables:                                 *)
(*   SpecCursor  the ByteParser alone: any sequence of reads and seeks;    *)
(*   Spec        parse_from_file, one action per decode step, the glyf     *)
(*               loop one action per iteration.                            *)
(***************************************************************************)
EXTENDS Integers, Sequences, FiniteSets, TLC

VARIABLES
    file,             \* the font file: its bytes, or "unreadable"
    overflow_checks,  \* build profile: TRUE = arithmetic overflow panics (debug)
    buffer,           \* ByteParser.buffer
    offset,           \* ByteParser.offset
    pc,               \* position in parse_from_file
    tables,           \* the locals of parse_from_file built so far
    glyphs,           \* the Vec of parse_glyf_table
    glyph_i,          \* loop counter of parse_glyf_table
    ret,              \* what parse_from_file returned (NoRet while running)
    trace,            \* history: the decode steps entered, in order
    lookups,          \* history: <<tag, result>> of every lookup_offset_for_tag
    last              \* SpecCursor: the last ByteParser call, its argument and result

vars == <<file, overflow_checks, buffer, offset, pc, tables, glyphs, glyph_i,
          ret, trace, lookups, last>>

(***************************************************************************)
(* Results.  Rust's Result<T, CapyError> plus the third outcome a call can *)
(* have, a panic, which unwinds through every caller.  off is the cursor   *)
(* position the call leaves behind.                                        *)
(***************************************************************************)
Ok(v, off) == [kind |-> "Ok", val |-> <<v>>, off |-> off, code |-> "OK"]

Err(code, off) == [kind |-> "Err", val |-> <<>>, off |-> off, code |-> code]

Panic(off) == [kind |-> "Panic", val |-> <<>>, off |-> off, code |-> "PANIC"]

IsOk(r) == r.kind = "Ok"

Val(r) == r.val[1]

(***************************************************************************)
(* Fixed-width integers.  (A u32 is an integer of the checker, which holds  *)
(* it only below 2^31: the inputs keep the first byte of a u32 under 128.) *)
(***************************************************************************)
u16_from_be_bytes(b) == b[1] * 256 + b[2]

i16_from_be_bytes(b) ==
    LET u == b[1] * 256 + b[2]
    IN  IF u >= 32768 THEN u - 65536 ELSE u

u32_from_be_bytes(b) == ((b[1] * 256 + b[2]) * 256 + b[3]) * 256 + b[4]

\* buffer[start..end) of Rust, as a sequence
Slice(buf, start, end) == [k \in 1..(end - start) |-> buf[start + k]]

(***************************************************************************)
(* ByteParser                                                              *)
(***************************************************************************)
U8_SIZE == 1

U32_SIZE == 4

U16_SIZE == 2

I16_SIZE == 2

\* set_offset refusing the end of the buffer too (`>=` for `>`)
set_offset_refusing_end(buf, off, target) ==
    IF target >= Len(buf)
    THEN Err("OutOfRange", off)
    ELSE Ok(target, target)

set_offset(buf, off, target) ==
    IF target > Len(buf)
    THEN Err("OutOfRange", off)
    ELSE Ok(target, target)

read_u8_array_256(buf, off) ==
    IF off + U8_SIZE * 256 <= Len(buf)
    THEN Ok(Slice(buf, off, off + U8_SIZE * 256), off + U8_SIZE * 256)
    ELSE Err("OutOfRange", off)

read_be_i16_array_4(buf, off) ==
    IF off + I16_SIZE * 4 <= Len(buf)
    THEN Ok([i \in 1..4 |->
                i16_from_be_bytes(Slice(buf, off + (i - 1) * I16_SIZE,
                                        off + i * I16_SIZE))],
            off + 4 * I16_SIZE)
    ELSE Err("OutOfRange", off)

read_be_u8(buf, off) ==
    IF off + U8_SIZE <= Len(buf)
    THEN Ok(buf[off + 1], off + U8_SIZE)
    ELSE Err("OutOfRange", off)

\* read_be_u32 with `<` for `<=`: the last four bytes cannot be read
read_be_u32_strict(buf, off) ==
    IF off + U32_SIZE < Len(buf)
    THEN Ok(u32_from_be_bytes(Slice(buf, off, off + U32_SIZE)), off + U32_SIZE)
    ELSE Err("OutOfRange", off)

read_be_u32(buf, off) ==
    IF off + U32_SIZE <= Len(buf)
    THEN Ok(u32_from_be_bytes(Slice(buf, off, off + U32_SIZE)), off + U32_SIZE)
    ELSE Err("OutOfRange", off)

read_be_u16(buf, off) ==
    IF off + U16_SIZE <= Len(buf)
    THEN Ok(u16_from_be_bytes(Slice(buf, off, off + U16_SIZE)), off + U16_SIZE)
    ELSE Err("OutOfRange", off)

read_be_i16(buf, off) ==
    IF off + U16_SIZE <= Len(buf)
    THEN Ok(i16_from_be_bytes(Slice(buf, off, off + U16_SIZE)), off + U16_SIZE)
    ELSE Err("OutOfRange", off)

\* one read, by the name of the method
Read(kind, buf, off) ==
    CASE kind = "u8"     -> read_be_u8(buf, off)
      [] kind = "u16"    -> read_be_u16(buf, off)
      [] kind = "i16"    -> read_be_i16(buf, off)
      [] kind = "u32"    -> read_be_u32(buf, off)
      [] kind = "i16x4"  -> read_be_i16_array_4(buf, off)
      [] kind = "u8x256" -> read_u8_array_256(buf, off)

ReadKinds == {"u8", "u16", "i16", "u32", "i16x4", "u8x256"}

\* the number of bytes a read of that kind asks for
SizeOf(kind) ==
    CASE kind = "u8"     -> 1
      [] kind = "u16"    -> 2
      [] kind = "i16"    -> 2
      [] kind = "u32"    -> 4
      [] kind = "i16x4"  -> 8
      [] kind = "u8x256" -> 256

(***************************************************************************)
(* The `?` operator: `K(r?)`.  A failure (or a panic) of r is the result   *)
(* of the whole expression; otherwise the rest, K, runs on the success.    *)
(***************************************************************************)
Try(r, K(_)) == IF IsOk(r) THEN K(r) ELSE r

\* A run of reads chained by `?`, made left to right, each from where the
\* one before it stopped.  (The run is split in halves so that the
\* evaluation stays shallow.)
RECURSIVE ReadFields(_, _, _)
ReadFields(buf, off, kinds) ==
    IF Len(kinds) = 0
    THEN Ok(<<>>, off)
    ELSE IF Len(kinds) = 1
    THEN Try(Read(kinds[1], buf, off), LAMBDA r : Ok(<<Val(r)>>, r.off))
    ELSE Try(ReadFields(buf, off, SubSeq(kinds, 1, Len(kinds) \div 2)),
             LAMBDA left :
         Try(ReadFields(buf, left.off,
                        SubSeq(kinds, Len(kinds) \div 2 + 1, Len(kinds))),
             LAMBDA right :
         Ok(Val(left) \o Val(right), right.off)))

\* `for _ in 0..n { v.push(parser.read_..()?) }`; an empty range when n <= 0
ReadN(buf, off, kind, n) ==
    ReadFields(buf, off, [k \in 1..n |-> kind])

\* a struct literal whose fields are reads, evaluated in the order written
ParseStruct(buf, off, fields) ==
    Try(ReadFields(buf, off, [k \in 1..Len(fields) |-> fields[k][2]]),
        LAMBDA r :
    Ok([n \in {fields[k][1] : k \in 1..Len(fields)} |->
           Val(r)[CHOOSE k \in 1..Len(fields) : fields[k][1] = n]],
       r.off))

\* Option<T>
None == <<>>

Some(x) == <<x>>

(***************************************************************************)
(* enum TableTag (the five tags the parser looks up, and three it does not)*)
(***************************************************************************)
Tag_Cmap == 1668112752

Tag_Glyf == 1735162214

Tag_Head == 1751474532

Tag_Hhea == 1751672161

Tag_Hmtx == 1752003704

Tag_Loca == 1819239265

Tag_Maxp == 1835104368

Tag_Name == 1851878757

(***************************************************************************)
(* Table directory                                                         *)
(***************************************************************************)
OffsetSubtable ==
    << <<"scalar_type", "u32">>, <<"num_tables", "u16">>,
       <<"search_range", "u16">>, <<"entry_selector", "u16">>,
       <<"range_shift", "u16">> >>

TableDirectorySubtable ==
    << <<"tag", "u32">>, <<"check_sum", "u32">>, <<"offset", "u32">>,
       <<"length", "u32">> >>

parse_offset_table(buf, off) == ParseStruct(buf, off, OffsetSubtable)

\* `for _ in 0..n { v.push(Struct { f: parser.read_..()?, .. }) }`
RECURSIVE ParseStructN(_, _, _, _)
ParseStructN(buf, off, fields, n) ==
    IF n = 0
    THEN Ok(<<>>, off)
    ELSE Try(ParseStruct(buf, off, fields), LAMBDA r :
         Try(ParseStructN(buf, r.off, fields, n - 1), LAMBDA rest :
         Ok(<<Val(r)>> \o Val(rest), rest.off)))

parse_table_directory_subtables(buf, off, num_tables) ==
    ParseStructN(buf, off, TableDirectorySubtable, num_tables)

parse_font_directory_table(buf, off) ==
    Try(parse_offset_table(buf, off), LAMBDA o :
    Try(parse_table_directory_subtables(buf, o.off, Val(o).num_tables),
        LAMBDA t :
    Ok([offset_subtable |-> Val(o), table_directory_subtables |-> Val(t)],
       t.off)))

\* lookup_offset_for_tag comparing the first byte of the tags only
lookup_offset_for_tag_first_byte(tag, font_directory_table) ==
    LET recs == font_directory_table.table_directory_subtables
        hits == {k \in 1..Len(recs) :
                   recs[k].tag \div 16777216 = tag \div 16777216}
    IN  IF hits = {}
        THEN Err("NotFound", 0)
        ELSE Ok(recs[CHOOSE k \in hits : \A j \in hits : k <= j].offset, 0)

\* lookup_offset_for_tag with `.map_or(0, ..)` for `.ok_or_else(NotFound)`
lookup_offset_for_tag_or_zero(tag, font_directory_table) ==
    LET recs == font_directory_table.table_directory_subtables
        hits == {k \in 1..Len(recs) : recs[k].tag = tag}
    IN  IF hits = {}
        THEN Ok(0, 0)
        ELSE Ok(recs[CHOOSE k \in hits : \A j \in hits : k <= j].offset, 0)

\* .iter().find(|dir| dir.tag == desired_tag).ok_or_else(NotFound)
lookup_offset_for_tag(tag, font_directory_table) ==
    LET recs == font_directory_table.table_directory_subtables
        hits == {k \in 1..Len(recs) : recs[k].tag = tag}
    IN  IF hits = {}
        THEN Err("NotFound", 0)
        ELSE Ok(recs[CHOOSE k \in hits : \A j \in hits : k <= j].offset, 0)

\* SeekTable without the set_offset: the table is read where the cursor is
SeekTable_lookup_only(buf, off, tag, font_directory_table) ==
    Try(lookup_offset_for_tag(tag, font_directory_table), LAMBDA l :
    Ok(Val(l), off))

\* `let o = lookup_offset_for_tag(tag, dir)?; parser.set_offset(o)?;`
\* (the lookup does not touch the cursor: its failure leaves off as it is)
SeekTable(buf, off, tag, font_directory_table) ==
    Try([lookup_offset_for_tag(tag, font_directory_table) EXCEPT !.off = off],
        LAMBDA l :
    set_offset(buf, off, Val(l)))

(***************************************************************************)
(* head, hhea, maxp                                                        *)
(***************************************************************************)
\* HeadTable with units_per_em read before flags
HeadTable_units_first ==
    << <<"version", "u32">>, <<"font_revision", "u32">>,
       <<"check_sum_adjustment", "u32">>, <<"magic_number", "u32">>,
       <<"units_per_em", "u16">>, <<"flags", "u16">>, <<"created", "u32">>,
       <<"modified", "u32">>, <<"x_min", "i16">>, <<"y_min", "i16">>,
       <<"x_max", "i16">>, <<"y_max", "i16">>, <<"mac_style", "u16">>,
       <<"lowest_rec_ppem", "u16">>, <<"font_direction_hint", "i16">>,
       <<"index_to_loc_format", "i16">>, <<"glyph_data_format", "i16">> >>

HeadTable ==
    << <<"version", "u32">>, <<"font_revision", "u32">>,
       <<"check_sum_adjustment", "u32">>, <<"magic_number", "u32">>,
       <<"flags", "u16">>, <<"units_per_em", "u16">>, <<"created", "u32">>,
       <<"modified", "u32">>, <<"x_min", "i16">>, <<"y_min", "i16">>,
       <<"x_max", "i16">>, <<"y_max", "i16">>, <<"mac_style", "u16">>,
       <<"lowest_rec_ppem", "u16">>, <<"font_direction_hint", "i16">>,
       <<"index_to_loc_format", "i16">>, <<"glyph_data_format", "i16">> >>

HheaTable ==
    << <<"version", "u32">>, <<"ascent", "i16">>, <<"descent", "i16">>,
       <<"line_gap", "i16">>, <<"advance_width_max", "u16">>,
       <<"min_left_side_bearing", "i16">>,
       <<"min_right_side_bearing", "i16">>, <<"x_max_extent", "i16">>,
       <<"caret_slope_rise", "i16">>, <<"caret_slope_run", "i16">>,
       <<"caret_offset", "i16">>, <<"reserved", "i16x4">>,
       <<"metric_data_format", "i16">>, <<"number_of_hmetrics", "u16">> >>

MaxpTable ==
    << <<"version", "u32">>, <<"num_glyphs", "u16">>, <<"max_points", "u16">>,
       <<"max_contours", "u16">>, <<"max_composite_points", "u16">>,
       <<"max_composite_contours", "u16">>, <<"max_zones", "u16">>,
       <<"max_twilight_points", "u16">>, <<"max_storage", "u16">>,
       <<"max_function_defs", "u16">>, <<"max_instruction_defs", "u16">>,
       <<"max_stack_elements", "u16">>,
       <<"max_size_of_instructions", "u16">>,
       <<"max_component_elements", "u16">>,
       <<"max_component_depth", "u16">> >>

parse_head_table(buf, off, font_directory_table) ==
    Try(SeekTable(buf, off, Tag_Head, font_directory_table), LAMBDA s :
    ParseStruct(buf, s.off, HeadTable))

parse_hhea_table(buf, off, font_directory_table) ==
    Try(SeekTable(buf, off, Tag_Hhea, font_directory_table), LAMBDA s :
    ParseStruct(buf, s.off, HheaTable))

parse_maxp_table(buf, off, font_directory_table) ==
    Try(SeekTable(buf, off, Tag_Maxp, font_directory_table), LAMBDA s :
    ParseStruct(buf, s.off, MaxpTable))

(***************************************************************************)
(* cmap                                                                    *)
(***************************************************************************)
CmapEncodingSubtable ==
    << <<"platform_id", "u16">>, <<"platform_specific_id", "u16">>,
       <<"offset", "u32">> >>

parse_cmap_encoding_subtables(buf, off, num_subtables) ==
    ParseStructN(buf, off, CmapEncodingSubtable, num_subtables)

\* parse_cmap_format_zero without the read of language
parse_cmap_format_zero_no_language(buf, off, format) ==
    Try(ParseStruct(buf, off, << <<"length", "u16">>,
                                 <<"glyph_index_array", "u8x256">> >>),
        LAMBDA r :
    Ok([format |-> format, language |-> 0] @@ Val(r), r.off))

parse_cmap_format_zero(buf, off, format) ==
    Try(ParseStruct(buf, off, << <<"length", "u16">>, <<"language", "u16">>,
                                 <<"glyph_index_array", "u8x256">> >>),
        LAMBDA r :
    Ok([format |-> format] @@ Val(r), r.off))

\* v[from + 1 .. from + n]
Part(v, from, n) == [k \in 1..n |-> v[from + k]]

\* The reads, in the order the function makes them: seg_count_x2,
\* search_range, entry_selector, range_shift, end_code[seg_count],
\* reserved_pad, start_code[seg_count], id_delta[seg_count],
\* id_range_offset[seg_count], glyph_id_array[seg_count], length, language.
CmapFormatFourBody(buf, off, format, h, seg_count) ==
    Try(ReadFields(buf, off, [k \in 1..(5 * seg_count + 3) |-> "u16"]),
        LAMBDA b :
    Ok([format |-> format,
        length |-> Val(b)[5 * seg_count + 2],
        language |-> Val(b)[5 * seg_count + 3],
        seg_count_x2 |-> h[1],
        search_range |-> h[2],
        entry_selector |-> h[3],
        range_shift |-> h[4],
        end_code |-> Part(Val(b), 0, seg_count),
        reserved_pad |-> Val(b)[seg_count + 1],
        start_code |-> Part(Val(b), seg_count + 1, seg_count),
        id_delta |-> Part(Val(b), 2 * seg_count + 1, seg_count),
        id_range_offset |-> Part(Val(b), 3 * seg_count + 1, seg_count),
        glyph_id_array |-> Part(Val(b), 4 * seg_count + 1, seg_count)],
       b.off))

\* parse_cmap_format_four reading seg_count_x2 entries per array (no `/ 2`)
parse_cmap_format_four_unhalved(buf, off, format) ==
    Try(ReadFields(buf, off, <<"u16", "u16", "u16", "u16">>), LAMBDA h :
    CmapFormatFourBody(buf, h.off, format, Val(h), Val(h)[1]))

parse_cmap_format_four(buf, off, format) ==
    Try(ReadFields(buf, off, <<"u16", "u16", "u16", "u16">>), LAMBDA h :
    CmapFormatFourBody(buf, h.off, format, Val(h), Val(h)[1] \div 2))

\* `for table in encoding_subtables.iter() { .. match format { .. } }`
RECURSIVE CmapSubtableLoop(_, _, _, _, _, _, _)
CmapSubtableLoop(buf, off, cmap_offset, enc, k, fz, ff) ==
    IF k > Len(enc)
    THEN Ok([format_zero_table |-> fz, format_four_table |-> ff], off)
    ELSE
      Try(set_offset(buf, off, cmap_offset + enc[k].offset), LAMBDA s :
      Try(read_be_u16(buf, s.off), LAMBDA f :
      IF Val(f) = 0
      THEN Try(parse_cmap_format_zero(buf, f.off, Val(f)), LAMBDA z :
           CmapSubtableLoop(buf, z.off, cmap_offset, enc, k + 1,
                            Some(Val(z)), ff))
      ELSE IF Val(f) = 4
      THEN Try(parse_cmap_format_four(buf, f.off, Val(f)), LAMBDA four :
           CmapSubtableLoop(buf, four.off, cmap_offset, enc, k + 1,
                            fz, Some(Val(four))))
      ELSE Panic(f.off)))   \* todo!("Implement other cmap formats")

parse_cmap_table(buf, off, font_directory_table) ==
    Try(SeekTable(buf, off, Tag_Cmap, font_directory_table), LAMBDA s :
    Try(ReadFields(buf, s.off, <<"u16", "u16">>), LAMBDA h :
    Try(parse_cmap_encoding_subtables(buf, h.off, Val(h)[2]), LAMBDA e :
    Try(CmapSubtableLoop(buf, e.off, Val(s), Val(e), 1, None, None),
        LAMBDA l :
    Ok([version |-> Val(h)[1],
        num_subtables |-> Val(h)[2],
        encoding_subtables |-> Val(e),
        format_zero_table |-> Val(l).format_zero_table,
        format_four_table |-> Val(l).format_four_table], l.off)))))

(***************************************************************************)
(* glyf                                                                    *)
(***************************************************************************)
\* `flag & mask != 0` for a one-bit mask
Bit(flag, mask) == (flag \div mask) % 2 = 1

\* u16 `a + b`: an overflow panics in a build with overflow checks and
\* wraps in one without
AddU16(a, b, oc, off) ==
    IF a + b > 65535
    THEN IF oc THEN Panic(off) ELSE Ok((a + b) % 65536, off)
    ELSE Ok(a + b, off)

\* i16 `a + b`, likewise
AddI16(a, b, oc, off) ==
    IF a + b > 32767 \/ a + b < -32768
    THEN IF oc THEN Panic(off) ELSE Ok(((a + b + 32768) % 65536) - 32768, off)
    ELSE Ok(a + b, off)

\* `while i < num_points { .. }`
RECURSIVE FlagLoop(_, _, _, _, _, _)
FlagLoop(buf, off, i, num_points, flags, oc) ==
    IF ~(i < num_points)
    THEN Ok(flags, off)
    ELSE
      Try(read_be_u8(buf, off), LAMBDA flag :
      IF Bit(Val(flag), 8)
      THEN Try(read_be_u8(buf, flag.off), LAMBDA repeat_count :
           Try(AddU16(i, Val(repeat_count), oc, repeat_count.off),
               LAMBDA i_rep :
           Try(AddU16(Val(i_rep), 1, oc, repeat_count.off), LAMBDA i_one :
           FlagLoop(buf, repeat_count.off, Val(i_one), num_points,
                    flags \o [k \in 1..(Val(repeat_count) + 1) |-> Val(flag)],
                    oc))))
      ELSE Try(AddU16(i, 1, oc, flag.off), LAMBDA i_one :
           FlagLoop(buf, flag.off, Val(i_one), num_points,
                    Append(flags, Val(flag)), oc)))

\* CoordLoop adding every short delta, whatever the sign bit says
RECURSIVE CoordLoop_unsigned(_, _, _, _, _, _, _, _, _)
CoordLoop_unsigned(buf, off, flags, k, x, out, is_byte, positive, oc) ==
    IF k > Len(flags)
    THEN Ok(out, off)
    ELSE IF Bit(flags[k], is_byte)
    THEN Try(read_be_u8(buf, off), LAMBDA d :
         Try(AddI16(x, Val(d), oc, d.off), LAMBDA sum :
         CoordLoop_unsigned(buf, d.off, flags, k + 1, Val(sum),
                            Append(out, Val(sum)), is_byte, positive, oc)))
    ELSE IF ~Bit(flags[k], positive)
    THEN Try(read_be_i16(buf, off), LAMBDA d :
         Try(AddI16(x, Val(d), oc, d.off), LAMBDA sum :
         CoordLoop_unsigned(buf, d.off, flags, k + 1, Val(sum),
                            Append(out, Val(sum)), is_byte, positive, oc)))
    ELSE CoordLoop_unsigned(buf, off, flags, k + 1, x, Append(out, x),
                            is_byte, positive, oc)

\* `for flag in &flags { .. coordinates.push(x) }`; is_byte and positive are
\* the two bits of the axis (0x02 and 0x10 for x, 0x04 and 0x20 for y)
RECURSIVE CoordLoop(_, _, _, _, _, _, _, _, _)
CoordLoop(buf, off, flags, k, x, out, is_byte, positive, oc) ==
    IF k > Len(flags)
    THEN Ok(out, off)
    ELSE IF Bit(flags[k], is_byte)
    THEN Try(read_be_u8(buf, off), LAMBDA d :
         Try(AddI16(x, IF Bit(flags[k], positive) THEN Val(d) ELSE -Val(d),
                    oc, d.off),
             LAMBDA sum :
         CoordLoop(buf, d.off, flags, k + 1, Val(sum), Append(out, Val(sum)),
                   is_byte, positive, oc)))
    ELSE IF ~Bit(flags[k], positive)
    THEN Try(read_be_i16(buf, off), LAMBDA d :
         Try(AddI16(x, Val(d), oc, d.off), LAMBDA sum :
         CoordLoop(buf, d.off, flags, k + 1, Val(sum), Append(out, Val(sum)),
                   is_byte, positive, oc)))
    ELSE CoordLoop(buf, off, flags, k + 1, x, Append(out, x),
                   is_byte, positive, oc)

\* `end_pts_of_contours[number_of_contours as usize - 1] + 1`.  With
\* number_of_contours <= 0 the vector is empty and the index is either the
\* overflowing 0 - 1 or a sign-extended huge value: a panic in every build.
NumPoints(end_pts_of_contours, number_of_contours, oc, off) ==
    IF number_of_contours <= 0
    THEN Panic(off)
    ELSE AddU16(end_pts_of_contours[number_of_contours], 1, oc, off)

parse_glyph_subtable(buf, off, font_directory_table, oc) ==
    Try(SeekTable(buf, off, Tag_Glyf, font_directory_table), LAMBDA s :
    Try(ReadFields(buf, s.off, <<"i16", "i16", "i16", "i16", "i16">>),
        LAMBDA h :
    Try(ReadN(buf, h.off, "u16", Val(h)[1]), LAMBDA e :
    Try(read_be_u16(buf, e.off), LAMBDA il :
    Try(ReadN(buf, il.off, "u8", Val(il)), LAMBDA ins :
    Try(NumPoints(Val(e), Val(h)[1], oc, ins.off), LAMBDA np :
    Try(FlagLoop(buf, ins.off, 0, Val(np), <<>>, oc), LAMBDA fl :
    Try(CoordLoop(buf, fl.off, Val(fl), 1, 0, <<>>, 2, 16, oc), LAMBDA xs :
    Try(CoordLoop(buf, xs.off, Val(fl), 1, 0, <<>>, 4, 32, oc), LAMBDA ys :
    Ok([number_of_contours |-> Val(h)[1],
        x_min |-> Val(h)[2],
        y_min |-> Val(h)[3],
        x_max |-> Val(h)[4],
        y_max |-> Val(h)[5],
        end_pts_of_contours |-> Val(e),
        instruction_length |-> Val(il),
        instructions |-> Val(ins),
        flags |-> Val(fl),
        x_coordinates |-> Val(xs),
        y_coordinates |-> Val(ys)], ys.off))))))))))

(***************************************************************************)
(* parse_from_file, one decode step at a time                              *)
(***************************************************************************)
\* no ByteParser call was made yet
NoCall ==
    [op |-> "none", before |-> 0, arg |-> 0, res |-> Ok(0, 0),
     after_seek_to_end |-> FALSE]

NoTables ==
    [font_directory_table |-> None, cmap_table |-> None, head_table |-> None,
     hhea_table |-> None, maxp_table |-> None, glyf_table |-> None]

NoRet == [kind |-> "Running", code |-> "", font |-> None]

\* `return Err(e)` of the `?` operator, or the unwinding of a panic
Returned(r) == [kind |-> r.kind, code |-> r.code, font |-> None]

\* NextStep with hhea parsed before head
NextStep_hhea_first(step) ==
    CASE step = "directory" -> "cmap"
      [] step = "cmap"      -> "hhea"
      [] step = "hhea"      -> "head"
      [] step = "head"      -> "maxp"
      [] step = "maxp"      -> "glyf"

\* the order of the `let .. = parse_..(..)?;` lines
NextStep(step) ==
    CASE step = "directory" -> "cmap"
      [] step = "cmap"      -> "head"
      [] step = "head"      -> "hhea"
      [] step = "hhea"      -> "maxp"
      [] step = "maxp"      -> "glyf"

\* `let <field> = <r>?;` : bind the local and go on, or return the failure,
\* dropping the locals built so far
Bind(step, field, r) ==
    /\ trace' = Append(trace, step)
    /\ offset' = r.off
    /\ IF IsOk(r)
       THEN /\ tables' = [tables EXCEPT ![field] = Some(Val(r))]
            /\ pc' = NextStep(step)
            /\ ret' = ret
       ELSE /\ tables' = NoTables
            /\ pc' = "done"
            /\ ret' = Returned(r)

Directory == tables.font_directory_table[1]

\* the record of one lookup_offset_for_tag call
Lookup(tag) ==
    [tag |-> tag, dir |-> Directory.table_directory_subtables,
     res |-> lookup_offset_for_tag(tag, Directory)]

\* impl From<std::io::Error> for CapyError
from_io_error == Err("Unknown", 0)

\* read_file_to_byte_buffer, then ByteParser::new
ReadFile ==
    /\ pc = "read_file"
    /\ IF file.readable
       THEN /\ buffer' = file.bytes
            /\ pc' = "directory"
            /\ ret' = ret
       ELSE /\ buffer' = buffer
            /\ pc' = "done"
            /\ ret' = Returned(from_io_error)
    /\ offset' = 0
    /\ UNCHANGED <<file, overflow_checks, tables, glyphs, glyph_i, trace,
                   lookups, last>>

StepDirectory ==
    /\ pc = "directory"
    /\ Bind("directory", "font_directory_table",
            parse_font_directory_table(buffer, offset))
    /\ UNCHANGED <<file, overflow_checks, buffer, glyphs, glyph_i, lookups, last>>

StepCmap ==
    /\ pc = "cmap"
    /\ Bind("cmap", "cmap_table", parse_cmap_table(buffer, offset, Directory))
    /\ lookups' = Append(lookups, Lookup(Tag_Cmap))
    /\ UNCHANGED <<file, overflow_checks, buffer, glyphs, glyph_i, last>>

StepHead ==
    /\ pc = "head"
    /\ Bind("head", "head_table", parse_head_table(buffer, offset, Directory))
    /\ lookups' = Append(lookups, Lookup(Tag_Head))
    /\ UNCHANGED <<file, overflow_checks, buffer, glyphs, glyph_i, last>>

StepHhea ==
    /\ pc = "hhea"
    /\ Bind("hhea", "hhea_table", parse_hhea_table(buffer, offset, Directory))
    /\ lookups' = Append(lookups, Lookup(Tag_Hhea))
    /\ UNCHANGED <<file, overflow_checks, buffer, glyphs, glyph_i, last>>

StepMaxp ==
    /\ pc = "maxp"
    /\ Bind("maxp", "maxp_table", parse_maxp_table(buffer, offset, Directory))
    /\ lookups' = Append(lookups, Lookup(Tag_Maxp))
    /\ UNCHANGED <<file, overflow_checks, buffer, glyphs, glyph_i, last>>

\* parse_glyf_table is entered: `let mut glyphs = Vec::new();`
EnterGlyf ==
    /\ pc = "glyf"
    /\ trace' = Append(trace, "glyf")
    /\ glyphs' = <<>>
    /\ glyph_i' = 0
    /\ pc' = "glyf_loop"
    /\ UNCHANGED <<file, overflow_checks, buffer, offset, tables, ret, lookups,
                   last>>

\* the body of the loop, r the result of parse_glyph_subtable
GlyphLoopBody(r) ==
    /\ offset' = r.off
    /\ IF ~IsOk(r)
       THEN /\ tables' = NoTables
            /\ glyphs' = <<>>
            /\ glyph_i' = glyph_i
            /\ pc' = "done"
            /\ ret' = Returned(r)
       ELSE IF Val(r).number_of_contours < 0
       THEN \* println!("Reached compound glyph"); break;
            /\ tables' = [tables EXCEPT !.glyf_table = Some([glyphs |-> glyphs])]
            /\ glyphs' = glyphs
            /\ glyph_i' = glyph_i
            /\ pc' = "assemble"
            /\ ret' = ret
       ELSE /\ tables' = tables
            /\ glyphs' = Append(glyphs, Val(r))
            /\ glyph_i' = glyph_i + 1
            /\ pc' = "glyf_loop"
            /\ ret' = ret

\* GlyphIteration advancing by glyph: after the first glyph, the next one
\* is read where the cursor stands
GlyphIteration_advancing ==
    /\ pc = "glyf_loop"
    /\ glyph_i < tables.maxp_table[1].num_glyphs
    /\ GlyphLoopBody(
         IF glyph_i = 0
         THEN parse_glyph_subtable(buffer, offset, Directory, overflow_checks)
         ELSE parse_glyph_subtable(
                  buffer, offset,
                  [table_directory_subtables |->
                     << [tag |-> Tag_Glyf, offset |-> offset] >>],
                  overflow_checks))
    /\ lookups' = Append(lookups, Lookup(Tag_Glyf))
    /\ UNCHANGED <<file, overflow_checks, buffer, trace, last>>

\* one iteration of `for _ in 0..num_glyphs`
GlyphIteration ==
    /\ pc = "glyf_loop"
    /\ glyph_i < tables.maxp_table[1].num_glyphs
    /\ GlyphLoopBody(parse_glyph_subtable(buffer, offset, Directory,
                                          overflow_checks))
    /\ lookups' = Append(lookups, Lookup(Tag_Glyf))
    /\ UNCHANGED <<file, overflow_checks, buffer, trace, last>>

\* the loop is over: `Ok(GlyfTable { glyphs })`
GlyfReturn ==
    /\ pc = "glyf_loop"
    /\ ~(glyph_i < tables.maxp_table[1].num_glyphs)
    /\ tables' = [tables EXCEPT !.glyf_table = Some([glyphs |-> glyphs])]
    /\ pc' = "assemble"
    /\ UNCHANGED <<file, overflow_checks, buffer, offset, glyphs, glyph_i, ret,
                   trace, lookups, last>>

\* `Ok(Font { .. })`
Assemble ==
    /\ pc = "assemble"
    /\ ret' = [kind |-> "Ok", code |-> "OK",
               font |-> Some([t \in DOMAIN tables |-> tables[t][1]])]
    /\ tables' = NoTables
    /\ pc' = "done"
    /\ UNCHANGED <<file, overflow_checks, buffer, offset, glyphs, glyph_i,
                   trace, lookups, last>>

Next ==
    \/ ReadFile
    \/ StepDirectory
    \/ StepCmap
    \/ StepHead
    \/ StepHhea
    \/ StepMaxp
    \/ EnterGlyf
    \/ GlyphIteration
    \/ GlyfReturn
    \/ Assemble

(***************************************************************************)
(* Font files: the inputs.  Each is laid out as an sfnt file is: the       *)
(* 12-byte offset subtable, one 16-byte record per table, then the tables  *)
(* cmap, head, hhea, maxp, glyf in that order.                             *)
(***************************************************************************)
BE16(v) == << (v \div 256) % 256, v % 256 >>

BEI16(v) == BE16((v + 65536) % 65536)

BE32(v) == << (v \div 16777216) % 256, (v \div 65536) % 256,
              (v \div 256) % 256, v % 256 >>

RECURSIVE Concat(_)
Concat(ss) == IF ss = <<>> THEN <<>> ELSE Head(ss) \o Concat(Tail(ss))

Words(vs) == Concat([k \in 1..Len(vs) |-> BE16(vs[k])])

\* the head table, 54 bytes
HeadBytes(units_per_em) ==
    Concat(<< BE32(65536), BE32(65536), BE32(0), BE32(1594834165),
              BE16(11), BE16(units_per_em),
              BE32(0), BE32(1000000000), BE32(0), BE32(1000000001),
              BEI16(-100), BEI16(-200), BEI16(900), BEI16(800),
              BE16(0), BE16(8), BEI16(2), BEI16(0), BEI16(0) >>)

\* the hhea table, 36 bytes
HheaBytes ==
    Concat(<< BE32(65536), BEI16(750), BEI16(-250), BEI16(9), BE16(1100),
              BEI16(-50), BEI16(-60), BEI16(1000), BEI16(1), BEI16(0),
              BEI16(0), BEI16(0), BEI16(0), BEI16(0), BEI16(0), BEI16(0),
              BE16(3) >>)

\* the maxp table, 32 bytes
MaxpBytes(num_glyphs) ==
    BE32(65536) \o
    Words(<<num_glyphs, 40, 4, 0, 0, 2, 0, 1, 1, 0, 64, 20, 0, 0>>)

\* a format 0 subtable (262 bytes) mapping code c to glyph (c + 164) % 256,
\* so 'a' = 97 to glyph 5
CmapFormat0Bytes ==
    Words(<<0, 262, 0>>) \o [c \in 1..256 |-> ((c - 1) + 164) % 256]

\* a format 4 subtable with two segments (32 bytes)
CmapFormat4Bytes ==
    Words(<<4, 32, 0, 4, 4, 1, 0,
            122, 65535, 0, 97, 65535, 65440, 1, 0, 0>>)

\* a format 6 subtable with one entry (12 bytes)
CmapFormat6Bytes == Words(<<6, 12, 0, 97, 1, 5>>)

CmapSubtableBytes(f) ==
    CASE f = 0 -> CmapFormat0Bytes
      [] f = 4 -> CmapFormat4Bytes
      [] f = 6 -> CmapFormat6Bytes

\* the subtables before the k-th one
RECURSIVE CmapSubtablesBefore(_, _)
CmapSubtablesBefore(formats, k) ==
    IF k = 1
    THEN <<>>
    ELSE CmapSubtablesBefore(formats, k - 1) \o CmapSubtableBytes(formats[k - 1])

\* the cmap table with one encoding record and subtable per format given
CmapBytes(formats) ==
    LET n == Len(formats)
    IN  Words(<<0, n>>) \o
        Concat([k \in 1..n |->
                  Words(<<3, 1>>) \o
                  BE32(4 + 8 * n + Len(CmapSubtablesBefore(formats, k)))]) \o
        CmapSubtablesBefore(formats, n + 1)

CmapVariants == {<<>>, <<0>>, <<4>>, <<6>>, <<0, 4>>, <<4, 6>>, <<6, 0>>}

\* A glyph description: header, end points, instructions, flags, x, y.
GlyphBytes(contours, end_pts, instructions, flag_bytes, x_bytes, y_bytes) ==
    Concat(<< BEI16(contours), BEI16(-10), BEI16(-20), BEI16(300), BEI16(400),
              Words(end_pts), BE16(Len(instructions)), instructions,
              flag_bytes, x_bytes, y_bytes >>)

Glyph(variant) ==
    CASE variant = "plain" ->
           \* three points: short +x/+y, long x/y, same x/y
           GlyphBytes(1, <<2>>, <<75>>, <<55, 1, 49>>,
                      <<10>> \o BEI16(-3), <<20>> \o BEI16(300))
      [] variant = "repeat" ->
           \* four points from one flag repeated three more times
           GlyphBytes(1, <<3>>, <<>>, <<15, 3>>, <<1, 2, 3, 4>>, <<5, 6, 7, 8>>)
      [] variant = "overrepeat" ->
           \* two points, and a flag repeated three more times
           GlyphBytes(1, <<1>>, <<>>, <<15, 3>>, <<1, 2, 3, 4>>, <<5, 6, 7, 8>>)
      [] variant = "two_contours" ->
           GlyphBytes(2, <<1, 3>>, <<1, 2>>, <<51, 39, 23, 1>>,
                      <<7, 9>> \o BEI16(-300), <<8, 9>> \o BEI16(1000))
      [] variant = "empty" ->
           GlyphBytes(0, <<>>, <<>>, <<>>, <<>>, <<>>)
      [] variant = "compound" ->
           GlyphBytes(-1, <<>>, <<>>, <<>>, <<>>, <<>>)
      [] variant = "x_overflow" ->
           \* x runs to 32767 + 1
           GlyphBytes(1, <<1>>, <<>>, <<33, 33>>, BEI16(32767) \o BEI16(1), <<>>)
      [] variant = "y_underflow" ->
           \* y runs to -32768 - 255
           GlyphBytes(1, <<1>>, <<>>, <<17, 21>>, <<>>, BEI16(-32768) \o <<255>>)
      [] variant = "max_points" ->
           \* the last end point is 65535
           GlyphBytes(1, <<65535>>, <<>>, <<1>>, <<0, 1>>, <<0, 2>>)

GlyphVariants ==
    {"plain", "repeat", "overrepeat", "two_contours", "empty", "compound",
     "x_overflow", "y_underflow", "max_points"}

\* the glyf table: the glyph of the variant, then a second, plain one
GlyfBytes(variant) == Glyph(variant) \o Glyph("plain")

\* A directory is a sequence of <<tag, where>>: where names the table the
\* record's offset points at, or "end" (the file's length) or "beyond".
FullDirectory ==
    << <<Tag_Cmap, "cmap">>, <<Tag_Head, "head">>, <<Tag_Hhea, "hhea">>,
       <<Tag_Maxp, "maxp">>, <<Tag_Glyf, "glyf">> >>

Without(dir, k) == [j \in 1..(Len(dir) - 1) |-> IF j < k THEN dir[j] ELSE dir[j + 1]]

DirectoryVariants ==
    {FullDirectory}
    \cup {Without(FullDirectory, k) : k \in 1..5}
    \cup { <<>>,
           << <<Tag_Head, "head">> >>,
           \* a tag that differs from head in its low bytes only, first
           << <<Tag_Cmap, "cmap">>, <<Tag_Hhea, "hhea">>, <<Tag_Hmtx, "maxp">>,
              <<Tag_Maxp, "maxp">>, <<Tag_Glyf, "glyf">> >>,
           \* two head records: the first one counts
           << <<Tag_Cmap, "cmap">>, <<Tag_Head, "head">>, <<Tag_Head, "hhea">>,
              <<Tag_Hhea, "hhea">>, <<Tag_Maxp, "maxp">>, <<Tag_Glyf, "glyf">> >>,
           \* tables in another order, with unrelated ones between
           << <<Tag_Loca, "glyf">>, <<Tag_Glyf, "glyf">>, <<Tag_Maxp, "maxp">>,
              <<Tag_Name, "end">>, <<Tag_Hhea, "hhea">>, <<Tag_Head, "head">>,
              <<Tag_Cmap, "cmap">> >>,
           \* offsets at and past the end of the file
           << <<Tag_Cmap, "cmap">>, <<Tag_Head, "end">>, <<Tag_Hhea, "hhea">>,
              <<Tag_Maxp, "maxp">>, <<Tag_Glyf, "glyf">> >>,
           << <<Tag_Cmap, "cmap">>, <<Tag_Head, "head">>, <<Tag_Hhea, "beyond">>,
              <<Tag_Maxp, "maxp">>, <<Tag_Glyf, "glyf">> >>,
           << <<Tag_Cmap, "cmap">>, <<Tag_Head, "head">>, <<Tag_Hhea, "hhea">>,
              <<Tag_Maxp, "maxp">>, <<Tag_Glyf, "end">> >> }

\* where each table starts in a file with n directory records
Layout(n, formats, variant) ==
    LET cmap == 12 + 16 * n
        head == cmap + Len(CmapBytes(formats))
        hhea == head + 54
        maxp == hhea + 36
        glyf == maxp + 32
        end  == glyf + Len(GlyfBytes(variant))
    IN  [cmap |-> cmap, head |-> head, hhea |-> hhea, maxp |-> maxp,
         glyf |-> glyf, end |-> end, beyond |-> end + 1]

FontFile(dir, formats, variant, num_glyphs, units_per_em) ==
    LET n == Len(dir)
        at == Layout(n, formats, variant)
    IN  Concat(<< BE32(65536), Words(<<n, 16, 0, 0>>),
                  Concat([k \in 1..n |->
                            Concat(<< BE32(dir[k][1]), BE32(0),
                                      BE32(at[dir[k][2]]), BE32(0) >>)]),
                  CmapBytes(formats), HeadBytes(units_per_em), HheaBytes,
                  MaxpBytes(num_glyphs), GlyfBytes(variant) >>)

Truncated(bytes, keep) == SubSeq(bytes, 1, keep)

\* bounds of the inputs
MaxGlyphs == 2

UnitsPerEm == {1000, 2048}

\* every table content, under the full directory
ContentFiles ==
    {FontFile(FullDirectory, f, g, n, 1000) :
        f \in CmapVariants, g \in GlyphVariants, n \in 0..MaxGlyphs}

\* every directory
DirectoryFiles ==
    {FontFile(d, f, "plain", n, u) :
        d \in DirectoryVariants, f \in {<<>>, <<4>>}, n \in {0, 1},
        u \in UnitsPerEm}

\* every truncation of four files
TruncatedFiles ==
    UNION {{Truncated(full, keep) : keep \in 0..Len(full)} :
             full \in {FontFile(FullDirectory, f, g, 1, 2048) :
                         f \in {<<>>, <<4>>}, g \in {"plain", "repeat"}}}

\* a file with the full directory and the given cmap and glyf tables
FontFileOf(cmap, glyf, num_glyphs) ==
    LET at == [cmap |-> 92, head |-> 92 + Len(cmap)]
    IN  Concat(<< BE32(65536), Words(<<5, 16, 0, 0>>),
                  BE32(Tag_Cmap), BE32(0), BE32(at.cmap), BE32(0),
                  BE32(Tag_Head), BE32(0), BE32(at.head), BE32(0),
                  BE32(Tag_Hhea), BE32(0), BE32(at.head + 54), BE32(0),
                  BE32(Tag_Maxp), BE32(0), BE32(at.head + 90), BE32(0),
                  BE32(Tag_Glyf), BE32(0), BE32(at.head + 122), BE32(0),
                  cmap, HeadBytes(1000), HheaBytes, MaxpBytes(num_glyphs),
                  glyf >>)

\* a cmap table with one encoding record per subtable given
CmapBytesOf(subtables) ==
    LET n == Len(subtables)
    IN  Words(<<0, n>>) \o
        Concat([k \in 1..n |->
                  Words(<<0, 3>>) \o
                  BE32(4 + 8 * n
                       + Len(Concat(SubSeq(subtables, 1, k - 1))))]) \o
        Concat(subtables)

\* a format 4 subtable whose three 16-bit values after format are a, b, c
Cmap4Subtable(a, b, c) ==
    Words(<<4, a, b, c, 4, 1, 0,
            122, 65535, 0, 97, 65535, 65440, 1, 0, 0>>)

MaxSegCountX2 == 5

\* format 4 subtables, alone and in pairs
Cmap4Files ==
    {FontFileOf(CmapBytesOf(<<Cmap4Subtable(a, b, 4)>>), GlyfBytes("plain"), 1) :
        a \in 0..MaxSegCountX2, b \in {0, 7}}
    \cup {FontFileOf(CmapBytesOf(<<Cmap4Subtable(a, 0, 4), Cmap4Subtable(b, 0, 6)>>),
                     GlyfBytes("plain"), 0) :
            a \in {2, 32}, b \in 0..MaxSegCountX2}

\* a format 0 subtable mapping code c to glyph (c + shift) % 256
Cmap0Subtable(language, shift) ==
    Words(<<0, 262, language>>) \o [c \in 1..256 |-> ((c - 1) + shift) % 256]

\* format 0 subtables, alone and after a format 4 one
Cmap0Files ==
    {FontFileOf(CmapBytesOf(<<Cmap0Subtable(l, d)>>), GlyfBytes("plain"), 1) :
        l \in {0, 1}, d \in {0, 1, 164}}
    \cup {FontFileOf(CmapBytesOf(<<Cmap4Subtable(2, 0, 4), Cmap0Subtable(0, d)>>),
                     GlyfBytes("plain"), 1) : d \in {1, 164}}

FontFiles ==
    ContentFiles \cup DirectoryFiles \cup TruncatedFiles \cup Cmap4Files
    \cup Cmap0Files

Init ==
    /\ file \in {[readable |-> TRUE, bytes |-> b] : b \in FontFiles}
                \cup {[readable |-> FALSE, bytes |-> <<>>]}
    /\ overflow_checks \in BOOLEAN
    /\ buffer = <<>>
    /\ offset = 0
    /\ pc = "read_file"
    /\ tables = NoTables
    /\ glyphs = <<>>
    /\ glyph_i = 0
    /\ ret = NoRet
    /\ trace = <<>>
    /\ lookups = <<>>
    /\ last = NoCall

Spec == Init /\ [][Next]_vars

(***************************************************************************)
(* SpecCursor: a ByteParser over a buffer, and any sequence of its calls.  *)
(***************************************************************************)
MaxCursorLen == 9

MaxSeek == 3

MaxSeekPast == 2

\* buffers of 0..MaxCursorLen bytes, and of a few bytes under and over 256
CursorLengths == (0..MaxCursorLen) \cup {255, 256, 257, 264}

\* (bytes under 128: the checker's integers hold a u32 only below 2^31)
CursorBuffers == {[k \in 1..n |-> (k * 37 + n) % 128] : n \in CursorLengths}

\* seek targets: near the start, near the end, and past the end
SeekTargets(buf) ==
    {t \in 0..(Len(buf) + MaxSeekPast) : t <= MaxSeek \/ t >= Len(buf) - MaxSeek}

\* one call: the cursor moves to where the call leaves it
CursorCall(op, arg, r) ==
    /\ pc = "cursor"
    /\ offset' = r.off
    /\ last' = [op |-> op, before |-> offset, arg |-> arg, res |-> r,
                \* the call before this one was a successful seek to the end
                after_seek_to_end |-> /\ last.op = "set_offset"
                                      /\ IsOk(last.res)
                                      /\ last.arg = Len(buffer)]
    /\ UNCHANGED <<file, overflow_checks, buffer, pc, tables, glyphs, glyph_i,
                   ret, trace, lookups>>

Call_read_be_u8 == CursorCall("u8", 0, read_be_u8(buffer, offset))

Call_read_be_u16 == CursorCall("u16", 0, read_be_u16(buffer, offset))

Call_read_be_i16 == CursorCall("i16", 0, read_be_i16(buffer, offset))

Call_read_be_u32 == CursorCall("u32", 0, read_be_u32(buffer, offset))

Call_read_u8_array_256 ==
    CursorCall("u8x256", 0, read_u8_array_256(buffer, offset))

Call_read_be_i16_array_4 ==
    CursorCall("i16x4", 0, read_be_i16_array_4(buffer, offset))

Call_set_offset ==
    \E target \in SeekTargets(buffer) :
        CursorCall("set_offset", target, set_offset(buffer, offset, target))

NextCursor ==
    \/ Call_read_be_u8
    \/ Call_read_be_u16
    \/ Call_read_be_i16
    \/ Call_read_be_u32
    \/ Call_read_u8_array_256
    \/ Call_read_be_i16_array_4
    \/ Call_set_offset

\* ByteParser::new(&buffer)
InitCursor ==
    /\ buffer \in CursorBuffers
    /\ offset = 0
    /\ last = NoCall
    /\ pc = "cursor"
    /\ file = [readable |-> TRUE, bytes |-> <<>>]
    /\ overflow_checks = FALSE
    /\ tables = NoTables
    /\ glyphs = <<>>
    /\ glyph_i = 0
    /\ ret = NoRet
    /\ trace = <<>>
    /\ lookups = <<>>

SpecCursor == InitCursor /\ [][NextCursor]_vars

(***************************************************************************)
(* SpecLookup: lookup_offset_for_tag on a directory, for any tag.          *)
(***************************************************************************)
MaxRecords == 3

\* the tags of the records: three that share their first byte
RecordTags == {Tag_Head, Tag_Hhea, Tag_Glyf}

\* the tags looked up: those, one that shares head's first byte, one apart
LookupTags == RecordTags \cup {Tag_Hmtx, Tag_Cmap}

\* every directory of up to MaxRecords records; the k-th record's offset is
\* 100 * k, so that records of one tag differ in their offsets
LookupDirectories ==
    UNION {{[offset_subtable |->
               [scalar_type |-> 65536, num_tables |-> n, search_range |-> 0,
                entry_selector |-> 0, range_shift |-> 0],
             table_directory_subtables |->
               [k \in 1..n |-> [tag |-> tags[k], check_sum |-> 0,
                                offset |-> 100 * k, length |-> 0]]] :
             tags \in [1..n -> RecordTags]} : n \in 0..MaxRecords}

LookupTag ==
    /\ pc = "lookup"
    /\ \E tag \in LookupTags : lookups' = <<Lookup(tag)>>
    /\ UNCHANGED <<file, overflow_checks, buffer, offset, pc, tables, glyphs,
                   glyph_i, ret, trace, last>>

NextLookup == LookupTag

InitLookup ==
    /\ tables \in {[NoTables EXCEPT !.font_directory_table = Some(d)] :
                     d \in LookupDirectories}
    /\ pc = "lookup"
    /\ lookups = <<>>
    /\ buffer = <<>>
    /\ offset = 0
    /\ last = NoCall
    /\ file = [readable |-> TRUE, bytes |-> <<>>]
    /\ overflow_checks = FALSE
    /\ glyphs = <<>>
    /\ glyph_i = 0
    /\ ret = NoRet
    /\ trace = <<>>

SpecLookup == InitLookup /\ [][NextLookup]_vars

(***************************************************************************)
(* SpecGlyph: parse_glyph_subtable called again and again on one buffer,   *)
(* from wherever the cursor stands.                                        *)
(***************************************************************************)
MaxPoints == 2

MaxDecodes == 2

\* a file of a directory with the glyf record only, and one glyph
GlyphFile(glyph) ==
    Concat(<< BE32(65536), Words(<<1, 16, 0, 0>>),
              BE32(Tag_Glyf), BE32(0), BE32(28), BE32(0), glyph >>)

\* flags without the repeat bit: each case of x with y unchanged, each case
\* of y with x unchanged, and a short x with a long y
PointFlags == {33, 35, 51, 49, 17, 21, 53, 19}

\* the values a point's short and long deltas are written with
PointDeltas == {[byte |-> 200, word |-> 32700], [byte |-> 3, word |-> -32700]}

\* the bytes of one axis of a point
AxisBytes(flag, delta, is_byte, positive) ==
    IF Bit(flag, is_byte) THEN <<delta.byte>>
    ELSE IF ~Bit(flag, positive) THEN BEI16(delta.word)
    ELSE <<>>

\* one contour of Len(flags) points
PointsGlyph(flags, deltas) ==
    GlyphBytes(1, <<Len(flags) - 1>>, <<>>, flags,
               Concat([k \in 1..Len(flags) |->
                         AxisBytes(flags[k], deltas[k], 2, 16)]),
               Concat([k \in 1..Len(flags) |->
                         AxisBytes(flags[k], deltas[k], 4, 32)]))

GlyphBuffers ==
    {GlyphFile(PointsGlyph(fs, ds)) :
        fs \in UNION {[1..n -> PointFlags] : n \in 1..MaxPoints},
        ds \in [1..MaxPoints -> PointDeltas]}
    \cup {GlyphFile(Glyph(v)) : v \in GlyphVariants}
    \cup {Truncated(GlyphFile(Glyph("two_contours")), keep) :
            keep \in 28..Len(GlyphFile(Glyph("two_contours")))}

\* a decode: where the cursor stood, and what parse_glyph_subtable returned
GlyphCall(r) ==
    /\ glyphs' = Append(glyphs, [from |-> offset, res |-> r])
    /\ offset' = r.off

Call_parse_glyph_subtable ==
    /\ pc = "glyph"
    /\ Len(glyphs) < MaxDecodes
    /\ GlyphCall(parse_glyph_subtable(buffer, offset, Directory,
                                      overflow_checks))
    /\ UNCHANGED <<file, overflow_checks, buffer, pc, tables, glyph_i, ret,
                   trace, lookups, last>>

\* the cursor is moved between two decodes
Glyph_set_offset ==
    /\ pc = "glyph"
    /\ glyphs # <<>>
    /\ \E target \in {0, 12, Len(buffer)} :
          /\ IsOk(set_offset(buffer, offset, target))
          /\ offset' = set_offset(buffer, offset, target).off
    /\ UNCHANGED <<file, overflow_checks, buffer, pc, tables, glyphs, glyph_i,
                   ret, trace, lookups, last>>

NextGlyph ==
    \/ Call_parse_glyph_subtable
    \/ Glyph_set_offset

InitGlyph ==
    /\ buffer \in GlyphBuffers
    /\ overflow_checks \in BOOLEAN
    /\ file = [readable |-> TRUE, bytes |-> <<>>]
    /\ offset = 28
    /\ pc = "glyph"
    \* the directory is parsed, as parse_from_file does first
    /\ tables = [NoTables EXCEPT !.font_directory_table =
                    Some(Val(parse_font_directory_table(buffer, 0)))]
    /\ glyphs = <<>>
    /\ glyph_i = 0
    /\ ret = NoRet
    /\ trace = <<>>
    /\ lookups = <<>>
    /\ last = NoCall

SpecGlyph == InitGlyph /\ [][NextGlyph]_vars

(***************************************************************************)
(* Properties                                                              *)
(***************************************************************************)
\* the big-endian 16-bit value written at byte position pos of buf
U16At(buf, pos) == buf[pos + 1] * 256 + buf[pos + 2]

I16At(buf, pos) ==
    IF U16At(buf, pos) >= 32768 THEN U16At(buf, pos) - 65536 ELSE U16At(buf, pos)

\* the first record of recs carrying tag, 0 when there is none
FirstRecord(recs, tag) ==
    IF \E k \in 1..Len(recs) : recs[k].tag = tag
    THEN CHOOSE k \in 1..Len(recs) :
            /\ recs[k].tag = tag
            /\ \A j \in 1..(k - 1) : recs[j].tag # tag
    ELSE 0

\* C1: a read whose size runs past the end of the buffer fails with
\* OutOfRange and leaves the position where it was; a read that fits
\* succeeds and advances the position by exactly its size.
C1_ReadBounds ==
    last.op \in ReadKinds =>
        IF last.before + SizeOf(last.op) > Len(buffer)
        THEN /\ last.res.kind = "Err"
             /\ last.res.code = "OutOfRange"
             /\ offset = last.before
        ELSE /\ last.res.kind = "Ok"
             /\ offset = last.before + SizeOf(last.op)

\* a u32 read failed with some, but not enough, bytes left, after a
\* read that moved the cursor
C1_Witness ==
    /\ last.op = "u32"
    /\ last.res.kind = "Err"
    /\ last.before > 0
    /\ last.before < Len(buffer)
    /\ offset = last.before

\* C2: set_offset fails with OutOfRange, leaving the position unchanged,
\* exactly when the target is greater than the buffer length; a seek to the
\* buffer length succeeds, and the read made right after it fails with
\* OutOfRange.
C2_SeekBounds ==
    /\ last.op = "set_offset" =>
         /\ (last.res.kind = "Err") <=> (last.arg > Len(buffer))
         /\ last.res.kind = "Err" =>
              last.res.code = "OutOfRange" /\ offset = last.before
         /\ last.res.kind = "Ok" => offset = last.arg
    /\ (last.op \in ReadKinds /\ last.after_seek_to_end) =>
         /\ last.res.kind = "Err"
         /\ last.res.code = "OutOfRange"

\* a read made right after a successful seek to the end of a non-empty buffer
C2_Witness ==
    /\ last.op \in ReadKinds
    /\ last.after_seek_to_end
    /\ Len(buffer) > 0
    /\ last.before = Len(buffer)
    /\ last.res.code = "OutOfRange"

\* C3: lookup_offset_for_tag returns the offset of the first record carrying
\* the tag, and fails with NotFound when no record carries it; tags are
\* compared by exact equality.
C3_LookupFirstOrNotFound ==
    \A k \in 1..Len(lookups) :
        LET l == lookups[k]
            first == FirstRecord(l.dir, l.tag)
        IN  IF first = 0
            THEN l.res.kind = "Err" /\ l.res.code = "NotFound"
            ELSE l.res.kind = "Ok" /\ Val(l.res) = l.dir[first].offset

\* a lookup of a tag that two records carry, with different offsets, after
\* a record of another tag
C3_Witness ==
    /\ pc = "lookup"
    /\ lookups # <<>>
    /\ LET l == lookups[1]
       IN  /\ Len(l.dir) = 3
           /\ l.dir[1].tag # l.tag
           /\ l.dir[2].tag = l.tag
           /\ l.dir[3].tag = l.tag
           /\ Val(l.res) = l.dir[2].offset

\* the encoding records of the cmap table of buf, with the table's offset:
\* what the cmap decoder has read when it starts on the subtables
CmapEncodingRecords(buf) ==
    Try(parse_font_directory_table(buf, 0), LAMBDA d :
    Try(SeekTable(buf, d.off, Tag_Cmap, Val(d)), LAMBDA s :
    Try(ReadFields(buf, s.off, <<"u16", "u16">>), LAMBDA h :
    Try(parse_cmap_encoding_subtables(buf, h.off, Val(h)[2]), LAMBDA e :
    Ok([cmap_offset |-> Val(s), records |-> Val(e)], e.off)))))

\* the format field of the subtable each encoding record points at (-1 when
\* it lies outside the buffer); <<>> when the records cannot be read
CmapFormats(buf) ==
    IF ~IsOk(CmapEncodingRecords(buf))
    THEN <<>>
    ELSE [k \in 1..Len(Val(CmapEncodingRecords(buf)).records) |->
            IF Val(CmapEncodingRecords(buf)).cmap_offset
               + Val(CmapEncodingRecords(buf)).records[k].offset + 2 <= Len(buf)
            THEN U16At(buf, Val(CmapEncodingRecords(buf)).cmap_offset
                            + Val(CmapEncodingRecords(buf)).records[k].offset)
            ELSE -1]

\* C4: when a cmap encoding record points at a subtable whose format is
\* neither 0 nor 4, the parse returns an Unimplemented error value (it does
\* not abort).  Stated for the first encoding record, which the decoder
\* always reaches.
C4_UnsupportedFormatIsError ==
    (/\ pc = "done"
     /\ CmapFormats(buffer) # <<>>
     /\ CmapFormats(buffer)[1] \notin {-1, 0, 4})
    => (ret.kind = "Err" /\ ret.code = "Unimplemented")

\* C5: when every cmap subtable has format 0 or 4, the parse ends with a
\* Font or an error value: it never aborts.
C5_NeverAborts ==
    (\A k \in 1..Len(CmapFormats(buffer)) : CmapFormats(buffer)[k] \in {-1, 0, 4})
    => ret.kind # "Panic"

\* the lookups of tag made so far
LookupsOf(tag) == {k \in 1..Len(lookups) : lookups[k].tag = tag}

\* C6: a glyph whose number_of_contours is -1 does not stop the glyph loop:
\* after its iteration the parse has neither failed nor left the loop
\* before all maxp.num_glyphs iterations were made.
C6_CompoundContinues ==
    (/\ LookupsOf(Tag_Glyf) # {}
     /\ \A k \in LookupsOf(Tag_Glyf) :
          /\ IsOk(lookups[k].res)
          /\ Val(lookups[k].res) + 2 <= Len(buffer)
          /\ I16At(buffer, Val(lookups[k].res)) = -1)
    => /\ ret.kind \in {"Running", "Ok"}
       /\ pc \in {"assemble", "done"} =>
            \A m \in LookupsOf(Tag_Maxp) :
                Cardinality(LookupsOf(Tag_Glyf))
                    = U16At(buffer, Val(lookups[m].res) + 4)

\* C7: the flags of every decoded glyph are as many as its last end point
\* plus one.  Stated for the glyphs whose point count fits in 16 bits, so
\* that only the run-length expansion is in question.
C7_FlagsLength ==
    \A k \in 1..Len(glyphs) :
        glyphs[k].end_pts_of_contours[Len(glyphs[k].end_pts_of_contours)] < 65535
        => Len(glyphs[k].flags)
             = glyphs[k].end_pts_of_contours[Len(glyphs[k].end_pts_of_contours)] + 1

\* the table records of the directory of buf, read off the bytes
RawTags(buf) ==
    IF Len(buf) < 12 \/ Len(buf) < 12 + 16 * U16At(buf, 4)
    THEN <<>>
    ELSE [k \in 1..U16At(buf, 4) |->
            [tag |-> u32_from_be_bytes(Slice(buf, 12 + 16 * (k - 1),
                                             16 + 16 * (k - 1))),
             offset |-> u32_from_be_bytes(Slice(buf, 20 + 16 * (k - 1),
                                                24 + 16 * (k - 1)))]]

\* C8 as stated: a buffer whose directory holds a single record, for head,
\* with the table's 54 bytes at the recorded offset, parses to a Font whose
\* head.units_per_em is the value written (at byte 18 of the table).
C8_SingleHeadRecord ==
    (/\ pc = "done"
     /\ Len(RawTags(buffer)) = 1
     /\ RawTags(buffer)[1].tag = Tag_Head
     /\ RawTags(buffer)[1].offset + 54 <= Len(buffer))
    => /\ ret.kind = "Ok"
       /\ ret.font[1].head_table.units_per_em
            = U16At(buffer, RawTags(buffer)[1].offset + 18)

\* C8, amended: whenever the parse returns a Font, its head.units_per_em is
\* the value written at byte 18 of the table the first head record of the
\* directory points at.
C8_UnitsPerEm ==
    ret.kind = "Ok" =>
        /\ FirstRecord(RawTags(buffer), Tag_Head) # 0
        /\ ret.font[1].head_table.units_per_em
             = U16At(buffer,
                     RawTags(buffer)[FirstRecord(RawTags(buffer), Tag_Head)].offset
                     + 18)

\* a Font was returned for a file written with units_per_em = 2048
C8_Witness ==
    /\ ret.kind = "Ok"
    /\ ret.font[1].head_table.units_per_em = 2048
    /\ ret.font[1].head_table.flags = 11

\* C9: a lookup of a tag that no record of the directory carries fails with
\* NotFound, and the parse returns that NotFound error.
C9_MissingTagNotFound ==
    \A k \in 1..Len(lookups) :
        FirstRecord(lookups[k].dir, lookups[k].tag) = 0 =>
            /\ lookups[k].res.kind = "Err"
            /\ lookups[k].res.code = "NotFound"
            /\ k = Len(lookups)
            /\ pc = "done"
            /\ ret.kind = "Err"
            /\ ret.code = "NotFound"
            /\ ret.font = None

\* the glyf lookup was made in a directory with no glyf record, after the
\* four lookups before it had succeeded
C9_Witness ==
    /\ Len(lookups) = 5
    /\ lookups[5].tag = Tag_Glyf
    /\ FirstRecord(lookups[5].dir, Tag_Glyf) = 0
    /\ ret.code = "NotFound"

StepOrder == <<"directory", "cmap", "head", "hhea", "maxp", "glyf">>

\* C10: the decode steps run in the order directory, cmap, head, hhea, maxp,
\* glyf; once a step has failed no later step runs, the result is that
\* error, and neither a Font nor a table built so far is returned.
C10_OrderAndFirstError ==
    /\ Len(trace) <= Len(StepOrder)
    /\ trace = SubSeq(StepOrder, 1, Len(trace))
    /\ ret.kind = "Ok" => trace = StepOrder /\ ret.font # None
    /\ ret.kind = "Running" =>
         \* every step entered before the current one has succeeded
         \A k \in 1..5 :
            (tables[<<"font_directory_table", "cmap_table", "head_table",
                      "hhea_table", "maxp_table">>[k]] # None)
            <=> (k <= Len(trace) /\ pc # "read_file")
    /\ ret.kind = "Err" =>
         /\ pc = "done"
         /\ ~ENABLED Next
         /\ ret.font = None
         /\ tables = NoTables
         /\ \A k \in 1..(Len(lookups) - 1) : IsOk(lookups[k].res)
         /\ lookups # <<>> /\ ~IsOk(lookups[Len(lookups)].res) =>
              ret.code = lookups[Len(lookups)].res.code

\* the head step failed in a file that holds the cmap, hhea, maxp and glyf
\* tables: the parse stopped there
C10_Witness ==
    /\ ret.kind = "Err"
    /\ trace = <<"directory", "cmap", "head">>
    /\ \A t \in {Tag_Cmap, Tag_Hhea, Tag_Maxp, Tag_Glyf} :
          FirstRecord(RawTags(buffer), t) # 0

\* the cmap tables decoded so far: the one parse_from_file holds, and the
\* one of the Font it returned
CmapTablesSeen ==
    (IF tables.cmap_table # None THEN {tables.cmap_table[1]} ELSE {})
    \cup (IF ret.font # None THEN {ret.font[1].cmap_table} ELSE {})

\* C11: after every successful format-4 cmap decode, end_code, start_code,
\* id_delta and id_range_offset each hold exactly seg_count_x2 / 2 entries,
\* seg_count_x2 being the value stored in the decoded table.
C11_ParallelArrays ==
    \A t \in CmapTablesSeen :
        t.format_four_table # None =>
            LET four == t.format_four_table[1]
            IN  /\ Len(four.end_code) = four.seg_count_x2 \div 2
                /\ Len(four.start_code) = four.seg_count_x2 \div 2
                /\ Len(four.id_delta) = four.seg_count_x2 \div 2
                /\ Len(four.id_range_offset) = four.seg_count_x2 \div 2

\* a format-4 table was decoded with an odd seg_count_x2 = 5 and two
\* entries in each array
C11_Witness ==
    \E t \in CmapTablesSeen :
        /\ t.format_four_table # None
        /\ t.format_four_table[1].seg_count_x2 = 5
        /\ Len(t.format_four_table[1].end_code) = 2
        /\ Len(t.format_four_table[1].id_range_offset) = 2

\* where the cmap table of the buffer starts, by its first directory record
CmapOffset == RawTags(buffer)[FirstRecord(RawTags(buffer), Tag_Cmap)].offset

\* the encoding records of t that point at a subtable of the given format
RecordsOfFormat(t, format) ==
    {k \in 1..Len(t.encoding_subtables) :
        U16At(buffer, CmapOffset + t.encoding_subtables[k].offset) = format}

\* C12: for a cmap table with one format-0 subtable, the decoded
\* glyph_index_array holds, for every character code c in 0..255, the byte
\* found c positions after the subtable's 6-byte header.
C12_FormatZeroArray ==
    \A t \in CmapTablesSeen :
        Cardinality(RecordsOfFormat(t, 0)) = 1 =>
            LET k == CHOOSE k \in RecordsOfFormat(t, 0) : TRUE
                at == CmapOffset + t.encoding_subtables[k].offset
            IN  /\ t.format_zero_table # None
                /\ \A c \in 0..255 :
                      t.format_zero_table[1].glyph_index_array[c + 1]
                          = buffer[at + 6 + c + 1]

\* a Font was returned whose only cmap subtable, of format 0, was written
\* with glyph_index_array[97] = 5: code point 97 maps to glyph index 5
C12_Witness ==
    /\ ret.kind = "Ok"
    /\ ret.font[1].cmap_table.num_subtables = 1
    /\ buffer[CmapOffset + ret.font[1].cmap_table.encoding_subtables[1].offset
              + 6 + 97 + 1] = 5
    /\ ret.font[1].cmap_table.format_zero_table[1].glyph_index_array[97 + 1] = 5

\* C13: when the source file cannot be opened or read, the parse fails with
\* an error whose kind is InvalidArgument.
C13_UnreadableIsInvalidArgument ==
    (~file.readable /\ pc = "done")
    => (ret.kind = "Err" /\ ret.code = "InvalidArgument")

\* C14: two decodes of the same buffer from the same glyph offset, wherever
\* the cursor stood before each, have the same outcome, and on success the
\* same flags, x_coordinates and y_coordinates.
C14_DecodeDeterministic ==
    \A j, k \in 1..Len(glyphs) :
        pc = "glyph" =>
            /\ glyphs[j].res.kind = glyphs[k].res.kind
            /\ glyphs[j].res.code = glyphs[k].res.code
            /\ IsOk(glyphs[j].res) =>
                  /\ Val(glyphs[j].res).flags = Val(glyphs[k].res).flags
                  /\ Val(glyphs[j].res).x_coordinates
                        = Val(glyphs[k].res).x_coordinates
                  /\ Val(glyphs[j].res).y_coordinates
                        = Val(glyphs[k].res).y_coordinates

\* a glyph of two points was decoded twice, the second time with the
\* cursor elsewhere
C14_Witness ==
    /\ pc = "glyph"
    /\ Len(glyphs) = 2
    /\ glyphs[1].from # glyphs[2].from
    /\ IsOk(glyphs[2].res)
    /\ Len(Val(glyphs[2].res).x_coordinates) = 2
    /\ Val(glyphs[2].res).x_coordinates[2] # 0

\* the offset of the glyf table, by the directory
GlyfOffset == Val(lookup_offset_for_tag(Tag_Glyf, Directory))

\* the bytes of flag data, from pos on, that expand to `remaining` flags
RECURSIVE RefFlagBytes(_, _, _)
RefFlagBytes(buf, pos, remaining) ==
    IF remaining <= 0 THEN 0
    ELSE IF Bit(buf[pos + 1], 8)
    THEN 2 + RefFlagBytes(buf, pos + 2, remaining - 1 - buf[pos + 2])
    ELSE 1 + RefFlagBytes(buf, pos + 1, remaining - 1)

\* where the x data of the decoded glyph g starts in buf
XStart(buf, g) ==
    GlyfOffset + 12 + 2 * g.number_of_contours + g.instruction_length
    + RefFlagBytes(buf,
                   GlyfOffset + 12 + 2 * g.number_of_contours
                   + g.instruction_length,
                   Len(g.flags))

\* the bytes a flag takes on an axis, and the delta they encode
RefSize(flag, is_byte, positive) ==
    IF Bit(flag, is_byte) THEN 1 ELSE IF Bit(flag, positive) THEN 0 ELSE 2

RefDelta(buf, pos, flag, is_byte, positive) ==
    IF Bit(flag, is_byte) /\ Bit(flag, positive) THEN buf[pos + 1]
    ELSE IF Bit(flag, is_byte) THEN 0 - buf[pos + 1]
    ELSE IF Bit(flag, positive) THEN 0
    ELSE I16At(buf, pos)

\* the bytes the first k flags take on an axis
RECURSIVE RefSizes(_, _, _, _)
RefSizes(flags, k, is_byte, positive) ==
    IF k = 0 THEN 0
    ELSE RefSizes(flags, k - 1, is_byte, positive)
         + RefSize(flags[k], is_byte, positive)

\* the sum of the deltas of the first k flags, the data starting at start
RECURSIVE RefSum(_, _, _, _, _, _)
RefSum(buf, start, flags, k, is_byte, positive) ==
    IF k = 0 THEN 0
    ELSE RefSum(buf, start, flags, k - 1, is_byte, positive)
         + RefDelta(buf, start + RefSizes(flags, k - 1, is_byte, positive),
                    flags[k], is_byte, positive)

\* v as a 16-bit signed value
Wrap16(v) == ((v + 32768 + 65536 * 8) % 65536) - 32768

\* C16: for every decoded simple glyph, x_coordinates has one entry per
\* flag and entry k is the running sum (in 16 bits), from 0, over flags
\* 1..k of: plus a byte when 0x02 and 0x10 are set, minus a byte when 0x02
\* is set and 0x10 clear, a signed 16-bit delta when both are clear, and 0
\* with no byte consumed when 0x02 is clear and 0x10 set; y_coordinates
\* likewise with 0x04 and 0x20, from the bytes that follow all x data.
C16_CoordinateFold ==
    \A j \in 1..Len(glyphs) :
        (pc = "glyph" /\ IsOk(glyphs[j].res)) =>
            LET g == Val(glyphs[j].res)
            IN  /\ Len(g.x_coordinates) = Len(g.flags)
                /\ Len(g.y_coordinates) = Len(g.flags)
                /\ \A k \in 1..Len(g.flags) :
                      /\ g.x_coordinates[k]
                           = Wrap16(RefSum(buffer, XStart(buffer, g), g.flags,
                                           k, 2, 16))
                      /\ g.y_coordinates[k]
                           = Wrap16(RefSum(buffer,
                                           XStart(buffer, g)
                                           + RefSizes(g.flags, Len(g.flags), 2, 16),
                                           g.flags, k, 4, 32))

\* a decoded glyph whose two flags are a positive short x with a long y
\* (19) and an unchanged x with a negative short y (21)
C16_Witness ==
    /\ pc = "glyph"
    /\ glyphs # <<>>
    /\ IsOk(glyphs[1].res)
    /\ Val(glyphs[1].res).flags = <<19, 21>>
    /\ Val(glyphs[1].res).x_coordinates = <<200, 200>>
    /\ Val(glyphs[1].res).y_coordinates = <<32700, 32697>>

\* C15: in a format-4 cmap subtable the decoded length and language are the
\* two 16-bit values directly after format, and seg_count_x2 is the 16-bit
\* value at byte offset 6 of the subtable.
C15_FormatFourFieldOrder ==
    \A t \in CmapTablesSeen :
        Cardinality(RecordsOfFormat(t, 4)) = 1 =>
            LET k == CHOOSE k \in RecordsOfFormat(t, 4) : TRUE
                at == CmapOffset + t.encoding_subtables[k].offset
            IN  /\ t.format_four_table # None
                /\ t.format_four_table[1].length = U16At(buffer, at + 2)
                /\ t.format_four_table[1].language = U16At(buffer, at + 4)
                /\ t.format_four_table[1].seg_count_x2 = U16At(buffer, at + 6)

\* The glyph at the glyf offset, read off the bytes: its contour count, its
\* point count, where its flags start, and its flags when none is repeated.
RawContours == I16At(buffer, GlyfOffset)

RawPoints == U16At(buffer, GlyfOffset + 8 + 2 * RawContours) + 1

RawFlagStart ==
    GlyfOffset + 12 + 2 * RawContours
    + U16At(buffer, GlyfOffset + 10 + 2 * RawContours)

RawFlags == [k \in 1..RawPoints |-> buffer[RawFlagStart + k]]

\* the buffer holds a whole simple glyph, with no repeated flag
RawGlyphIsWhole ==
    /\ GlyfOffset + 10 <= Len(buffer)
    /\ RawContours >= 1
    /\ GlyfOffset + 12 + 2 * RawContours <= Len(buffer)
    /\ RawFlagStart + RawPoints <= Len(buffer)
    /\ \A k \in 1..RawPoints : ~Bit(RawFlags[k], 8)
    /\ RawFlagStart + RawPoints + RefSizes(RawFlags, RawPoints, 2, 16)
         + RefSizes(RawFlags, RawPoints, 4, 32) <= Len(buffer)

\* the 16-bit running value of an axis plus the k-th delta leaves the range
LeavesRange(start, k, is_byte, positive) ==
    LET sum == Wrap16(RefSum(buffer, start, RawFlags, k - 1, is_byte, positive))
                + RefDelta(buffer,
                           start + RefSizes(RawFlags, k - 1, is_byte, positive),
                           RawFlags[k], is_byte, positive)
    IN  sum > 32767 \/ sum < -32768

RawOverflows ==
    \E k \in 1..RawPoints :
        \/ LeavesRange(RawFlagStart + RawPoints, k, 2, 16)
        \/ LeavesRange(RawFlagStart + RawPoints
                       + RefSizes(RawFlags, RawPoints, 2, 16), k, 4, 32)

\* C17: when a running x or y value plus its delta leaves -32768..32767, the
\* stored coordinate is the sum reduced modulo 2^16 into that range, and
\* decoding continues: the glyph is decoded.
C17_Wraparound ==
    \A j \in 1..Len(glyphs) :
        (pc = "glyph" /\ RawGlyphIsWhole /\ RawOverflows) =>
            /\ IsOk(glyphs[j].res)
            /\ \A k \in 1..RawPoints :
                  /\ Val(glyphs[j].res).x_coordinates[k]
                       = Wrap16(RefSum(buffer, RawFlagStart + RawPoints,
                                       RawFlags, k, 2, 16))
                  /\ Val(glyphs[j].res).y_coordinates[k]
                       = Wrap16(RefSum(buffer,
                                       RawFlagStart + RawPoints
                                       + RefSizes(RawFlags, RawPoints, 2, 16),
                                       RawFlags, k, 4, 32))

\* C18: when a glyph header read during glyf decoding has
\* number_of_contours < 0, outline decoding stops there without an error:
\* the loop is left after that one iteration and the glyph list holds the
\* glyphs decoded before it.  Every iteration reads the glyph at the glyf
\* offset, so that glyph is the first one read and the list is empty.
C18_CompoundTruncates ==
    (/\ LookupsOf(Tag_Glyf) # {}
     /\ \A k \in LookupsOf(Tag_Glyf) :
          /\ IsOk(lookups[k].res)
          /\ Val(lookups[k].res) + 12 <= Len(buffer)
          /\ I16At(buffer, Val(lookups[k].res)) < 0)
    => /\ ret.kind \in {"Running", "Ok"}
       /\ pc \in {"assemble", "done"}
       /\ Cardinality(LookupsOf(Tag_Glyf)) = 1
       /\ glyphs = <<>>
       /\ ret.kind = "Ok" => ret.font[1].glyf_table.glyphs = <<>>

\* C19: every glyph decode iteration seeks to the same glyf offset taken
\* from the directory, so the glyphs decoded are all identical to the first;
\* a Font holds exactly maxp.num_glyphs of them; and when maxp.num_glyphs
\* is 0 the glyf table is never looked up and the glyph list is empty.
C19_SameGlyphEveryIteration ==
    /\ \A j, k \in LookupsOf(Tag_Glyf) : lookups[j].res = lookups[k].res
    /\ \A k \in 1..Len(glyphs) : glyphs[k] = glyphs[1]
    /\ tables.maxp_table # None =>
         /\ Cardinality(LookupsOf(Tag_Glyf)) <= tables.maxp_table[1].num_glyphs
         /\ Len(glyphs) <= Cardinality(LookupsOf(Tag_Glyf))
    /\ ret.kind = "Ok" =>
         /\ Len(ret.font[1].glyf_table.glyphs)
              = ret.font[1].maxp_table.num_glyphs
         /\ Cardinality(LookupsOf(Tag_Glyf))
              = ret.font[1].maxp_table.num_glyphs
         /\ \A k \in 1..Len(ret.font[1].glyf_table.glyphs) :
               ret.font[1].glyf_table.glyphs[k]
                   = ret.font[1].glyf_table.glyphs[1]

\* a Font with two glyphs, both the four-point glyph at the glyf offset,
\* was returned for a glyf table that holds a three-point glyph after it
C19_Witness ==
    /\ ret.kind = "Ok"
    /\ ret.font[1].maxp_table.num_glyphs = 2
    /\ Len(ret.font[1].glyf_table.glyphs) = 2
    /\ ret.font[1].glyf_table.glyphs[1].flags = <<15, 15, 15, 15>>
    /\ ret.font[1].glyf_table.glyphs[2].flags = <<15, 15, 15, 15>>
    /\ ret.font[1].glyf_table.glyphs[1].end_pts_of_contours = <<3>>

====
